---- MODULE Spec2Model ----
(***************************************************************************)
(* A model of the heapless containers: the RingBuffer of                   *)
(* src/ring_buffer/mod.rs (called with exclusive access, and as one        *)
(* producer and one consumer whose loads and stores interleave) and the    *)
(* fixed-capacity Vec of src/vec.rs with its owning iterator, and the      *)
(* overwriting CircularBuffer of src/circular_buffer.rs, and the LinearMap *)
(* of src/linear_map.rs.                                                   *)
(***************************************************************************)
EXTENDS Integers, Sequences, FiniteSets, TLC

\* ------------------------------------------------------------------ bounds
\* length of the backing array A of the RingBuffer (tests use [i32; 4])
RB_N == 4
\* number of items the callers of the RingBuffer construct
MaxItems == 8

\* capacity N of the Vec (tests use U2 and U4)
V_CAP == 3
\* number of elements constructed (by the callers and by clone) for the Vec
MaxElems == 5
\* longest slice passed to extend_from_slice
MaxSlice == 2

\* longest backing array of the CircularBuffer
CB_MAX == 3
\* number of calls of CircularBuffer::push
MaxPushes == 5

\* capacity of the LinearMap (the length of its array)
LM_CAP == 2

Slots == 0 .. (RB_N - 1)
ItemIds == 1 .. MaxItems

Range(s) == {s[i] : i \in DOMAIN s}

VARIABLES
    head,        \* RingBuffer.head: from where items are dequeued
    tail,        \* RingBuffer.tail: where new items are enqueued
    buffer,      \* RingBuffer.buffer: slot -> [id, live]; id 0 = never written
    rb_next,     \* number of items constructed so far by the callers
    rb_last,     \* the last completed call on the RingBuffer and its result
    enq,         \* items accepted by enqueue, in order
    deq,         \* items returned by dequeue, in order
    rb_drops,    \* item -> number of times the RingBuffer code ran its destructor
    rb_alive,    \* FALSE once the RingBuffer has been dropped
    rb_touched,  \* the slots Drop ran drop_in_place on, in order
    rb_hist,     \* TRUE when the calls are recorded: items are numbered as
                 \* they are constructed (at most MaxItems of them) and enq,
                 \* deq and rb_drops are kept; FALSE when no record is kept
                 \* and calls go on for ever
    prod,        \* the producer's position inside enqueue and its locals
    cons,        \* the consumer's position inside dequeue and its locals
    vec,         \* i::Vec: [buffer, len]; a slot holds an element or is uninitialized
    v_next,      \* number of elements constructed so far
    v_last,      \* the last completed call on the Vec and its result
    v_drops,     \* element -> number of times its destructor ran
    v_state,     \* "alive", "truncating" (inside the loop of truncate),
                 \* "panicked" (a call panicked, unwinding), "iter"
                 \* (moved into an IntoIter), "undefined" (a call wrote outside
                 \* the buffer) or "dropped"
    v_stack,     \* under pushes and pops only: the elements pushed and not yet
                 \* popped, oldest first (any other call empties it)
    v_access,    \* the slots the last call read (or ran drop_in_place on) and
                 \* wrote, and the Vec's len when it accessed them
    it_next,     \* IntoIter.next, once into_iter has moved the Vec into it
    it_clone,    \* the clone made of the IntoIter: its next and vec.len, the
                 \* slots of the original it read, the slots it created an
                 \* element in, and how often each of these was destroyed
    cb,          \* CircularBuffer: [array, index, len]
    cb_pushed,   \* the values passed to CircularBuffer::push, in order
    cb_state,    \* "alive", or "panicked" once a push has panicked
    cb_stamp,    \* slot -> the number of the push that last wrote it, 0 if none
    cb_ctor,     \* how the CircularBuffer was constructed, and from which array
    tr_len,      \* the argument of the truncate whose loop is running
    lm,          \* LinearMap.buffer: the (key, value) pairs it holds, in order
    lm_last      \* the last completed call on the LinearMap and its result

rbVars == <<head, tail, buffer, rb_next, rb_last, enq, deq, rb_drops, rb_alive,
            rb_touched, rb_hist>>
spscVars == <<prod, cons>>
vecVars == <<vec, v_next, v_last, v_drops, v_state, v_stack, v_access, it_next,
             it_clone, tr_len>>
cbVars == <<cb, cb_pushed, cb_state, cb_stamp, cb_ctor>>
lmVars == <<lm, lm_last>>

\* --------------------------------------------------------------- RingBuffer

\* RingBuffer::capacity: buffer.len() - 1
RBCapacity == Cardinality(DOMAIN buffer) - 1

\* (*head + 1) % n and (*tail + 1) % n
NextIdxNoWrap(i, n) == i + 1
NextIdx(i, n) == (i + 1) % n

\* enqueue's test `next_tail != *head`
\* (faulty variant: the test left out)
HasRoomAlways(next_tail, h) == TRUE
HasRoom(next_tail, h) == next_tail # h

\* dequeue's test `*head != *tail`
\* (faulty variant: the test left out)
NotEmptyNever(h, t) == FALSE
NotEmptyAlways(h, t) == TRUE
NotEmpty(h, t) == h # t

\* the slot enqueue writes: buffer.get_unchecked_mut(*tail)
\* (faulty variant: the write goes to slot next_tail)
WriteSlotNext(t, next_tail) == next_tail
WriteSlot(t, next_tail) == t

\* enqueue, `*tail = next_tail`: the cursor value the producer publishes
StoreTailSkip(next_tail) == NextIdx(next_tail, RBCapacity + 1)
StoreTail(next_tail) == next_tail

\* RingBuffer::len
RBLen(h, t) == IF h > t THEN h - t ELSE t - h

\* RingBuffer::is_empty
RBIsEmpty(h, t) == RBLen(h, t) = 0

\* the slot IterMut::next yields at position index
IterSlot(h, index) == (h + index) % (RBCapacity + 1)

\* the slots `for item in self` visits in Drop: iter_mut() fixes len = self.len()
DropSlots(h, t) == [k \in 1 .. RBLen(h, t) |-> IterSlot(h, k - 1)]

\* the items iter() and iter_mut() yield, in order: len is fixed to
\* self.len() when the iterator is made, and next yields the slot at
\* (head + index) % (capacity() + 1) while index < len
IterItems(b, h, t) == [k \in 1 .. RBLen(h, t) |-> b[IterSlot(h, k - 1)].id]

NoCall == [op |-> "none", ok |-> FALSE, arg |-> 0, ret |-> 0]

RBInit ==
    /\ head = 0
    /\ tail = 0
    /\ buffer = [s \in Slots |-> [id |-> 0, live |-> FALSE]]
    /\ rb_next = 0
    /\ rb_last = NoCall
    /\ enq = <<>>
    /\ deq = <<>>
    /\ rb_drops = [i \in ItemIds |-> 0]
    /\ rb_alive = TRUE
    /\ rb_touched = <<>>
    /\ rb_hist = TRUE

\* RingBuffer::new over an array of any length from 1 to RB_N
RBInitAnyN ==
    /\ head = 0
    /\ tail = 0
    /\ buffer \in {[s \in 0 .. (n - 1) |-> [id |-> 0, live |-> FALSE]] :
                       n \in 1 .. RB_N}
    /\ rb_next = 0
    /\ rb_last = NoCall
    /\ enq = <<>>
    /\ deq = <<>>
    /\ rb_drops = [i \in ItemIds |-> 0]
    /\ rb_alive = TRUE
    /\ rb_touched = <<>>
    /\ rb_hist = TRUE

SpscInit ==
    /\ prod = [pc |-> "idle", item |-> 0, next_tail |-> 0]
    /\ cons = [pc |-> "idle", item |-> 0]

\* RingBuffer::enqueue(&mut self, item), the whole call
Enqueue(item) ==
    LET n == RBCapacity + 1
        next_tail == NextIdx(tail, n)
    IN  /\ rb_alive
        /\ IF HasRoom(next_tail, head)
           THEN /\ buffer' = [buffer EXCEPT ![WriteSlot(tail, next_tail)] =
                                 [id |-> item, live |-> TRUE]]
                /\ tail' = StoreTail(next_tail)
                /\ enq' = Append(enq, item)
                /\ rb_drops' = rb_drops
                /\ rb_last' = [op |-> "enqueue", ok |-> TRUE, arg |-> item, ret |-> 0]
           ELSE \* Err(BufferFullError): the error carries nothing and `item`
                \* goes out of scope inside enqueue, which runs its destructor
                /\ UNCHANGED <<buffer, tail, enq>>
                /\ rb_drops' = [rb_drops EXCEPT ![item] = @ + 1]
                /\ rb_last' = [op |-> "enqueue", ok |-> FALSE, arg |-> item, ret |-> 0]
        /\ UNCHANGED <<head, deq, rb_alive, rb_hist, rb_touched>>

\* the caller constructs a fresh item and enqueues it
EnqueueCall ==
    /\ rb_next < MaxItems
    /\ rb_next' = rb_next + 1
    /\ Enqueue(rb_next + 1)
    /\ UNCHANGED <<spscVars, vecVars, cbVars, lmVars>>

\* RingBuffer::dequeue(&mut self), the whole call
Dequeue ==
    LET n == RBCapacity + 1
    IN  /\ rb_alive
        /\ IF NotEmpty(head, tail)
           THEN /\ rb_last' = [op |-> "dequeue", ok |-> TRUE, arg |-> 0,
                               ret |-> buffer[head].id]
                /\ deq' = Append(deq, buffer[head].id)
                \* ptr::read moves the value out: the bits stay, the slot is
                \* logically uninitialized
                /\ buffer' = [buffer EXCEPT ![head].live = FALSE]
                /\ head' = NextIdx(head, n)
           ELSE /\ rb_last' = [op |-> "dequeue", ok |-> FALSE, arg |-> 0, ret |-> 0]
                /\ UNCHANGED <<deq, buffer, head>>
        /\ UNCHANGED <<tail, enq, rb_next, rb_drops, rb_alive, rb_hist, rb_touched>>

DequeueCall ==
    /\ Dequeue
    /\ UNCHANGED <<spscVars, vecVars, cbVars, lmVars>>

\* impl Drop for RingBuffer: drop_in_place on every item iter_mut() yields
RBDrop ==
    LET slots == DropSlots(head, tail)
    IN  /\ rb_alive
        /\ rb_alive' = FALSE
        /\ rb_touched' = slots
        /\ rb_drops' = [i \in ItemIds |->
                          rb_drops[i] +
                          Cardinality({k \in DOMAIN slots : buffer[slots[k]].id = i})]
        /\ buffer' = [s \in DOMAIN buffer |->
                        IF s \in Range(slots)
                        THEN [buffer[s] EXCEPT !.live = FALSE]
                        ELSE buffer[s]]
        /\ rb_last' = [op |-> "drop", ok |-> TRUE, arg |-> 0, ret |-> 0]
        /\ UNCHANGED <<head, tail, rb_next, enq, deq, rb_hist>>
        /\ UNCHANGED <<spscVars, vecVars, cbVars, lmVars>>

\* ------------------------------------------- one producer, one consumer
\* The same enqueue and dequeue, one load or store of head, tail or a slot
\* per step, the producer's steps interleaved with the consumer's.

\* the item a caller passes to enqueue: the next number when the calls are
\* recorded, else always the same value
NewItem == IF rb_hist THEN rb_next + 1 ELSE 1

\* the record of the accepted (returned) items and of the destructor runs
Recorded(seq, item) == IF rb_hist THEN Append(seq, item) ELSE seq
Destroyed(drops, item) ==
    IF rb_hist THEN [drops EXCEPT ![item] = @ + 1] ELSE drops

\* enqueue called with a fresh item; line 116: next_tail = (*tail + 1) % n
EnqBegin ==
    /\ prod.pc = "idle"
    /\ rb_hist => rb_next < MaxItems
    /\ rb_next' = (IF rb_hist THEN rb_next + 1 ELSE rb_next)
    /\ prod' = [pc |-> "e_check", item |-> NewItem,
                next_tail |-> NextIdx(tail, RBCapacity + 1)]
    /\ UNCHANGED <<head, tail, buffer, rb_last, enq, deq, rb_drops, rb_alive, rb_hist,
                   rb_touched, cons, vecVars, cbVars, lmVars>>

\* line 117: if next_tail != *head, else Err(BufferFullError)
EnqCheck ==
    /\ prod.pc = "e_check"
    /\ IF HasRoom(prod.next_tail, head)
       THEN /\ prod' = [prod EXCEPT !.pc = "e_write"]
            /\ UNCHANGED <<rb_drops, rb_last>>
       ELSE /\ prod' = [pc |-> "idle", item |-> 0, next_tail |-> 0]
            /\ rb_drops' = Destroyed(rb_drops, prod.item)
            /\ rb_last' = [op |-> "enqueue", ok |-> FALSE, arg |-> prod.item,
                           ret |-> 0]
    /\ UNCHANGED <<head, tail, buffer, rb_next, enq, deq, rb_alive, rb_hist, rb_touched,
                   cons, vecVars, cbVars, lmVars>>

\* line 120: ptr::write(buffer.get_unchecked_mut(*tail), item)
EnqWrite ==
    /\ prod.pc = "e_write"
    /\ buffer' = [buffer EXCEPT ![WriteSlot(tail, prod.next_tail)] =
                     [id |-> prod.item, live |-> TRUE]]
    /\ prod' = [prod EXCEPT !.pc = "e_publish"]
    /\ UNCHANGED <<head, tail, rb_next, rb_last, enq, deq, rb_drops, rb_alive, rb_hist,
                   rb_touched, cons, vecVars, cbVars, lmVars>>

\* line 121: *tail = next_tail; Ok(())
EnqPublish ==
    /\ prod.pc = "e_publish"
    /\ tail' = StoreTail(prod.next_tail)
    /\ enq' = Recorded(enq, prod.item)
    /\ rb_last' = [op |-> "enqueue", ok |-> TRUE, arg |-> prod.item, ret |-> 0]
    /\ prod' = [pc |-> "idle", item |-> 0, next_tail |-> 0]
    /\ UNCHANGED <<head, buffer, rb_next, deq, rb_drops, rb_alive, rb_hist, rb_touched,
                   cons, vecVars, cbVars, lmVars>>

\* line 96: if *head != *tail, else None
DeqCheck ==
    /\ cons.pc = "idle"
    /\ IF NotEmpty(head, tail)
       THEN /\ cons' = [cons EXCEPT !.pc = "d_read"]
            /\ UNCHANGED rb_last
       ELSE /\ cons' = cons
            /\ rb_last' = [op |-> "dequeue", ok |-> FALSE, arg |-> 0, ret |-> 0]
    /\ UNCHANGED <<head, tail, buffer, rb_next, enq, deq, rb_drops, rb_alive, rb_hist,
                   rb_touched, prod, vecVars, cbVars, lmVars>>

\* line 97: item = ptr::read(buffer.get_unchecked(*head))
DeqRead ==
    /\ cons.pc = "d_read"
    /\ cons' = [pc |-> "d_publish", item |-> buffer[head].id]
    /\ buffer' = [buffer EXCEPT ![head].live = FALSE]
    /\ UNCHANGED <<head, tail, rb_next, rb_last, enq, deq, rb_drops, rb_alive, rb_hist,
                   rb_touched, prod, vecVars, cbVars, lmVars>>

\* line 98: *head = (*head + 1) % n; Some(item)
DeqPublish ==
    /\ cons.pc = "d_publish"
    /\ head' = NextIdx(head, RBCapacity + 1)
    /\ deq' = Recorded(deq, cons.item)
    /\ rb_last' = [op |-> "dequeue", ok |-> TRUE, arg |-> 0, ret |-> cons.item]
    /\ cons' = [pc |-> "idle", item |-> 0]
    /\ UNCHANGED <<tail, buffer, rb_next, enq, rb_drops, rb_alive, rb_hist, rb_touched,
                   prod, vecVars, cbVars, lmVars>>

\* ---------------------------------------------------------------------- Vec

VSlots == 0 .. (V_CAP - 1)
ElemIds == 1 .. MaxElems
\* the values of elements; 0 is T::default()
Vals == {0, 1}

\* no element: an uninitialized slot, or a result that carries no element
NoElem == [id |-> 0, val |-> 0]
NoSlot == NoElem

\* an element written into a slot, and the element a slot holds
Live(item) == item
Elem(slot) == slot
\* a slot whose value has been moved out or destroyed is uninitialized again
Dead(slot) == NoSlot

\* i::Vec::new
VNew == [buffer |-> [i \in VSlots |-> NoSlot], len |-> 0]

\* i::Vec::capacity: N::to_usize()
VCapacity == V_CAP

\* i::Vec::as_slice: the slots [0, len)
AsSlice(v) == [k \in 1 .. v.len |-> v.buffer[k - 1]]

\* i::Vec::is_full
IsFull(v) == v.len = VCapacity

\* push's test `self.len < self.capacity()`
\* (faulty variant: <= for <)
PushFitsInclusive(v) == v.len <= VCapacity
PushFits(v) == v.len < VCapacity

\* i::Vec::push_unchecked: write at slot len, then len += 1
\* (faulty variant: len += 1 before the write)
PushUncheckedIncFirst(v, item) ==
    [buffer |-> [i \in VSlots |-> IF i = v.len + 1 THEN Live(item) ELSE v.buffer[i]],
     len |-> v.len + 1]
PushUnchecked(v, item) ==
    [buffer |-> [i \in VSlots |-> IF i = v.len THEN Live(item) ELSE v.buffer[i]],
     len |-> v.len + 1]

\* i::Vec::pop_unchecked: len -= 1, then read slot len
\* (faulty variant: the read takes slot 0)
PopUncheckedRetFirst(v) == Elem(v.buffer[0])
PopUncheckedRet(v) == Elem(v.buffer[v.len - 1])
PopUnchecked(v) ==
    [buffer |-> [v.buffer EXCEPT ![v.len - 1] = Dead(@)], len |-> v.len - 1]

\* i::Vec::insert_unchecked: ptr::copy(p, p + 1, len - index), write at index
\* (faulty variant: the write without the copy)
InsertUncheckedNoShift(v, index, item) ==
    [buffer |-> [i \in VSlots |-> IF i = index THEN Live(item) ELSE v.buffer[i]],
     len |-> v.len + 1]
InsertUnchecked(v, index, item) ==
    [buffer |-> [i \in VSlots |->
                    IF i = index THEN Live(item)
                    ELSE IF i > index /\ i <= v.len THEN v.buffer[i - 1]
                    ELSE v.buffer[i]],
     len |-> v.len + 1]

\* i::Vec::remove_unchecked: read slot index, ptr::copy(p + 1, p, len - index - 1)
\* (faulty variants: the read takes the last slot; the copy is left out)
RemoveUncheckedRetLast(v, index) == Elem(v.buffer[v.len - 1])
RemoveUncheckedNoShift(v, index) ==
    [buffer |-> [v.buffer EXCEPT ![v.len - 1] = Dead(@)], len |-> v.len - 1]
RemoveUncheckedRet(v, index) == Elem(v.buffer[index])
RemoveUnchecked(v, index) ==
    [buffer |-> [i \in VSlots |->
                    IF i >= index /\ i < v.len - 1 THEN v.buffer[i + 1]
                    ELSE IF i = v.len - 1 THEN Dead(v.buffer[i])
                    ELSE v.buffer[i]],
     len |-> v.len - 1]

\* i::Vec::swap_remove_unchecked: ptr::swap(index, length - 1), pop_unchecked
\* (faulty variant: the swap is left out)
SwapSlotsNone(v, index) == v
SwapSlots(v, index) ==
    [v EXCEPT !.buffer = [i \in VSlots |->
                             IF i = index THEN v.buffer[v.len - 1]
                             ELSE IF i = v.len - 1 THEN v.buffer[index]
                             ELSE v.buffer[i]]]
SwapRemoveUncheckedRet(v, index) == PopUncheckedRet(SwapSlots(v, index))
SwapRemoveUnchecked(v, index) == PopUnchecked(SwapSlots(v, index))

\* (faulty variant of TruncateDropped: the last slot only)
TruncateDroppedLast(v, len) ==
    IF len < v.len THEN <<v.buffer[v.len - 1]>> ELSE <<>>
\* i::Vec::truncate / Vec::truncate: the slots drop_in_place runs on, in order
\* (len is decremented before each), and the Vec that is left
TruncateDropped(v, len) ==
    IF len < v.len THEN [k \in 1 .. (v.len - len) |-> v.buffer[v.len - k]] ELSE <<>>
Truncate(v, len) ==
    IF len < v.len
    THEN [buffer |-> [i \in VSlots |->
                         IF i >= len /\ i < v.len THEN Dead(v.buffer[i])
                         ELSE v.buffer[i]],
          len |-> len]
    ELSE v

\* impl Drop for Vec: drop_in_place(&mut self[..])
\* (faulty variant: nothing is destroyed)
DropDroppedNone(v) == <<>>
DropDropped(v) == AsSlice(v)

\* the destructor counts after drop_in_place has run on each of `slots`
RunDrops(drops, slots) ==
    [i \in ElemIds |->
        drops[i] + Cardinality({k \in DOMAIN slots : slots[k].id = i})]

\* the slots a call touches: those it reads (ptr::read, the source of
\* ptr::copy and ptr::swap, drop_in_place), those it writes, and the Vec's len
\* when it touched them
Access(reads, writes, len) == [reads |-> reads, writes |-> writes, len |-> len]
NoAccess == Access({}, {}, 0)

\* push_unchecked writes slot len
PushUncheckedAccess(v) == Access({}, {v.len}, v.len)
\* pop_unchecked reads slot len - 1
PopUncheckedAccess(v) == Access({v.len - 1}, {}, v.len)
\* insert_unchecked moves [index, len) up by one and writes slot index
InsertUncheckedAccess(v, index) ==
    Access(index .. (v.len - 1), index .. v.len, v.len)
\* remove_unchecked reads slot index and moves (index, len) down by one
RemoveUncheckedAccess(v, index) ==
    Access(index .. (v.len - 1), index .. (v.len - 2), v.len)
\* swap_remove_unchecked swaps slots index and len - 1, then pops
SwapRemoveUncheckedAccess(v, index) ==
    Access({index, v.len - 1}, {index, v.len - 1}, v.len)
\* truncate runs drop_in_place on the slots [len, v.len)
TruncateAccess(v, len) == Access(len .. (v.len - 1), {}, v.len)
\* Drop runs drop_in_place on the slots [0, len)
DropAccess(v) == Access(0 .. (v.len - 1), {}, v.len)
\* k calls of push_unchecked write the slots [len, len + k)
ExtendAccess(v, k) == Access({}, v.len .. (v.len + k - 1), v.len)

\* i::Vec::insert: assert!(index <= len)
InsertAssert(v, index) == index <= v.len
\* i::Vec::insert: `self.len < self.capacity() && index <= self.len`
InsertFits(v, index) == v.len < VCapacity /\ index <= v.len
\* i::Vec::remove: `index < self.len`
\* (faulty variant: <= for <)
RemoveInBoundsInclusive(v, index) == index <= v.len
RemoveInBounds(v, index) == index < v.len
\* i::Vec::swap_remove: assert!(index < self.len)
\* (faulty variant: <= for <, on a Vec that is not empty)
SwapRemoveAssertInclusive(v, index) == v.len > 0 /\ index <= v.len
SwapRemoveAssert(v, index) == index < v.len
\* i::Vec::extend_from_slice: `self.len + other.len() > self.capacity()`
\* (faulty variant: only a full Vec is refused)
ExtendTooLongWhenFull(v, other) == v.len >= VCapacity /\ Len(other) > 0
ExtendTooLong(v, other) == v.len + Len(other) > VCapacity
\* Vec::resize: `new_len > self.capacity()`
\* (faulty variant: compared with the capacity plus one)
ResizeTooLongByTwo(new_len) == new_len > VCapacity + 1
ResizeTooLong(new_len) == new_len > VCapacity

\* the element the k-th construction after `n` earlier ones yields
Fresh(n, k, val) == [id |-> n + k, val |-> val]

\* no clone of the IntoIter has been made
NoClone ==
    [state |-> "none", from |-> 0, next |-> 0, len |-> 0, reads |-> {},
     made |-> {}, drops |-> [i \in VSlots |-> 0]]

VecInit ==
    /\ vec = VNew
    /\ v_next = 0
    /\ v_last = [op |-> "none", ok |-> FALSE, ret |-> NoElem]
    /\ v_drops = [i \in ElemIds |-> 0]
    /\ v_state = "alive"
    /\ v_stack = <<>>
    /\ v_access = NoAccess
    /\ it_next = 0
    /\ it_clone = NoClone
    /\ tr_len = 0

VecFrame ==
    UNCHANGED <<rbVars, spscVars, cbVars, lmVars, it_next, it_clone, tr_len>>

\* Vec::push(item) on a freshly constructed item; the caller destroys an
\* item that is handed back
Push(val) ==
    LET item == Fresh(v_next, 1, val)
    IN  /\ v_state = "alive"
        /\ v_next + 1 <= MaxElems
        /\ v_next' = v_next + 1
        /\ IF PushFits(vec)
           THEN /\ vec' = PushUnchecked(vec, item)
                /\ v_last' = [op |-> "push", ok |-> TRUE, ret |-> NoElem]
                /\ v_stack' = Append(v_stack, item)
                /\ v_drops' = v_drops
                /\ v_access' = PushUncheckedAccess(vec)
           ELSE /\ vec' = vec
                /\ v_last' = [op |-> "push", ok |-> FALSE, ret |-> item]
                /\ v_stack' = v_stack
                /\ v_drops' = RunDrops(v_drops, <<item>>)
                /\ v_access' = NoAccess
        /\ UNCHANGED v_state
        /\ VecFrame

PushCall == \E val \in Vals : Push(val)

\* Vec::pop; the caller destroys the element it receives
PopCall ==
    /\ v_state = "alive"
    /\ IF vec.len # 0
       THEN /\ vec' = PopUnchecked(vec)
            /\ v_last' = [op |-> "pop", ok |-> TRUE, ret |-> PopUncheckedRet(vec)]
            /\ v_drops' = RunDrops(v_drops, <<PopUncheckedRet(vec)>>)
            /\ v_access' = PopUncheckedAccess(vec)
            /\ v_stack' = IF v_stack = <<>> THEN v_stack
                          ELSE SubSeq(v_stack, 1, Len(v_stack) - 1)
       ELSE /\ vec' = vec
            /\ v_last' = [op |-> "pop", ok |-> FALSE, ret |-> NoElem]
            /\ v_access' = NoAccess
            /\ UNCHANGED <<v_drops, v_stack>>
    /\ UNCHANGED <<v_next, v_state>>
    /\ VecFrame

\* Vec::insert(index, item): assert!(index <= len) panics, and the unwinding
\* destroys item
Insert(index, val) ==
    LET item == Fresh(v_next, 1, val)
    IN  /\ v_state = "alive"
        /\ v_next + 1 <= MaxElems
        /\ v_next' = v_next + 1
        /\ IF ~InsertAssert(vec, index)
           THEN /\ v_state' = "panicked"
                /\ vec' = vec
                /\ v_last' = [op |-> "insert", ok |-> FALSE, ret |-> NoElem]
                /\ v_drops' = RunDrops(v_drops, <<item>>)
                /\ v_access' = NoAccess
           ELSE IF InsertFits(vec, index)
           THEN /\ vec' = InsertUnchecked(vec, index, item)
                /\ v_last' = [op |-> "insert", ok |-> TRUE, ret |-> NoElem]
                /\ v_access' = InsertUncheckedAccess(vec, index)
                /\ UNCHANGED <<v_drops, v_state>>
           ELSE /\ vec' = vec
                /\ v_last' = [op |-> "insert", ok |-> FALSE, ret |-> item]
                /\ v_drops' = RunDrops(v_drops, <<item>>)
                /\ v_access' = NoAccess
                /\ UNCHANGED v_state
        /\ v_stack' = <<>>
        /\ VecFrame

InsertCall == \E index \in 0 .. (V_CAP + 1), val \in Vals : Insert(index, val)

\* Vec::remove(index); the caller destroys the element it receives
Remove(index) ==
    /\ v_state = "alive"
    /\ IF RemoveInBounds(vec, index)
       THEN /\ vec' = RemoveUnchecked(vec, index)
            /\ v_last' = [op |-> "remove", ok |-> TRUE,
                          ret |-> RemoveUncheckedRet(vec, index)]
            /\ v_drops' = RunDrops(v_drops, <<RemoveUncheckedRet(vec, index)>>)
            /\ v_access' = RemoveUncheckedAccess(vec, index)
       ELSE /\ vec' = vec
            /\ v_last' = [op |-> "remove", ok |-> FALSE, ret |-> NoElem]
            /\ v_access' = NoAccess
            /\ UNCHANGED v_drops
    /\ v_stack' = <<>>
    /\ UNCHANGED <<v_next, v_state>>
    /\ VecFrame

RemoveCall == \E index \in 0 .. V_CAP : Remove(index)

\* Vec::swap_remove(index): assert!(index < self.len) panics
SwapRemove(index) ==
    /\ v_state = "alive"
    /\ IF SwapRemoveAssert(vec, index)
       THEN /\ vec' = SwapRemoveUnchecked(vec, index)
            /\ v_last' = [op |-> "swap_remove", ok |-> TRUE,
                          ret |-> SwapRemoveUncheckedRet(vec, index)]
            /\ v_drops' = RunDrops(v_drops, <<SwapRemoveUncheckedRet(vec, index)>>)
            /\ v_access' = SwapRemoveUncheckedAccess(vec, index)
            /\ UNCHANGED v_state
       ELSE /\ v_state' = "panicked"
            /\ vec' = vec
            /\ v_last' = [op |-> "swap_remove", ok |-> FALSE, ret |-> NoElem]
            /\ v_access' = NoAccess
            /\ UNCHANGED v_drops
    /\ v_stack' = <<>>
    /\ UNCHANGED v_next
    /\ VecFrame

SwapRemoveCall == \E index \in 0 .. V_CAP : SwapRemove(index)

\* Vec::truncate(len)
TruncateTo(len) ==
    /\ v_state = "alive"
    /\ vec' = Truncate(vec, len)
    /\ v_drops' = RunDrops(v_drops, TruncateDropped(vec, len))
    /\ v_last' = [op |-> "truncate", ok |-> TRUE, ret |-> NoElem]
    /\ v_access' = TruncateAccess(vec, len)
    /\ v_stack' = <<>>
    /\ UNCHANGED <<v_next, v_state>>
    /\ VecFrame

TruncateCall == \E len \in 0 .. (V_CAP + 1) : TruncateTo(len)

\* Vec::clear: truncate(0)
ClearCall ==
    /\ v_state = "alive"
    /\ vec' = Truncate(vec, 0)
    /\ v_drops' = RunDrops(v_drops, TruncateDropped(vec, 0))
    /\ v_last' = [op |-> "clear", ok |-> TRUE, ret |-> NoElem]
    /\ v_access' = TruncateAccess(vec, 0)
    /\ v_stack' = <<>>
    /\ UNCHANGED <<v_next, v_state>>
    /\ VecFrame

\* the Vec after `k` pushes of clones of value, the j-th clone being the
\* (first + j)-th element constructed
\* (faulty variant: the loop ends after its first push)
PushClonesOnce(v, first, k, val) ==
    IF k = 0 THEN v ELSE PushUnchecked(v, Fresh(first, 1, val))
RECURSIVE PushClones(_, _, _, _)
PushClones(v, first, k, val) ==
    IF k = 0 THEN v
    ELSE IF PushFits(PushClones(v, first, k - 1, val))
         THEN PushUnchecked(PushClones(v, first, k - 1, val), Fresh(first, k, val))
         ELSE PushClones(v, first, k - 1, val)

\* Vec::resize(new_len, value): value is constructed by the caller and
\* destroyed when resize returns
Resize(new_len, val) ==
    LET value == Fresh(v_next, 1, val)
        grow == IF ~ResizeTooLong(new_len) /\ new_len > vec.len
                THEN new_len - vec.len ELSE 0
    IN  /\ v_state = "alive"
        /\ v_next + 1 + grow <= MaxElems
        /\ v_next' = v_next + 1 + grow
        /\ IF ResizeTooLong(new_len)
           THEN /\ vec' = vec
                /\ v_last' = [op |-> "resize", ok |-> FALSE, ret |-> NoElem]
                /\ v_drops' = RunDrops(v_drops, <<value>>)
                /\ v_access' = NoAccess
           ELSE IF new_len > vec.len
           THEN /\ vec' = PushClones(vec, v_next + 1, grow, val)
                /\ v_last' = [op |-> "resize", ok |-> TRUE, ret |-> NoElem]
                /\ v_drops' = RunDrops(v_drops, <<value>>)
                /\ v_access' = ExtendAccess(vec, grow)
           ELSE /\ vec' = Truncate(vec, new_len)
                /\ v_last' = [op |-> "resize", ok |-> TRUE, ret |-> NoElem]
                /\ v_access' = TruncateAccess(vec, new_len)
                /\ v_drops' = RunDrops(RunDrops(v_drops, TruncateDropped(vec, new_len)),
                                       <<value>>)
        /\ v_stack' = <<>>
        /\ UNCHANGED v_state
        /\ VecFrame

ResizeCall == \E new_len \in 0 .. (V_CAP + 1), val \in Vals : Resize(new_len, val)

\* the slices of borrowed values a caller passes
Slices == UNION {[1 .. n -> Vals] : n \in 0 .. MaxSlice}

\* the Vec after push_unchecked(elem.clone()) for the first k elements of other
RECURSIVE ExtendClones(_, _, _, _)
ExtendClones(v, first, other, k) ==
    IF k = 0 THEN v
    ELSE PushUnchecked(ExtendClones(v, first, other, k - 1),
                       Fresh(first, k, other[k]))

\* i::Vec::extend_from_slice(other). T::clone is the caller's code and may
\* panic: `done` clones have been pushed when the call ends, and with
\* done < other.len() it ends because the next clone panicked
ExtendFromSlice(other) ==
    /\ v_state = "alive"
    /\ IF ExtendTooLong(vec, other)
       THEN /\ vec' = vec
            /\ v_next' = v_next
            /\ v_last' = [op |-> "extend_from_slice", ok |-> FALSE, ret |-> NoElem]
            /\ v_access' = NoAccess
            /\ UNCHANGED v_state
       ELSE \E done \in 0 .. Len(other) :
            /\ v_next + done <= MaxElems
            /\ v_next' = v_next + done
            /\ vec' = ExtendClones(vec, v_next, other, done)
            /\ v_access' = ExtendAccess(vec, done)
            /\ v_last' = [op |-> "extend_from_slice", ok |-> done = Len(other),
                          ret |-> NoElem]
            /\ v_state' = IF done = Len(other) THEN "alive" ELSE "panicked"
    /\ v_stack' = <<>>
    /\ UNCHANGED v_drops
    /\ VecFrame

ExtendFromSliceCall == \E other \in Slices : ExtendFromSlice(other)

\* from_iter: Option::expect on the None that `.ok()` makes of a failed push
\* panics
\* (faulty variant: the failed push is passed over)
ExpectPassesOver == FALSE
ExpectPanics == TRUE

\* impl FromIterator for Vec: `vec` after the loop has taken the first k
\* items (the j-th item being the (first + j)-th element constructed),
\* whether it has panicked, and the items a failed push handed back, which
\* `.ok()` destroys
RECURSIVE FromIter(_, _, _, _)
FromIter(v, first, items, k) ==
    IF k = 0 THEN [vec |-> v, panicked |-> FALSE, rejected |-> <<>>, taken |-> 0]
    ELSE LET before == FromIter(v, first, items, k - 1)
             item   == Fresh(first, k, items[k])
         IN  IF before.panicked THEN before
             ELSE IF PushFits(before.vec)
             THEN [before EXCEPT !.vec = PushUnchecked(before.vec, item),
                                 !.taken = k]
             ELSE [before EXCEPT !.panicked = ExpectPanics,
                                 !.rejected = Append(before.rejected, item),
                                 !.taken = k]

\* the items an iterator yields
Iterators == UNION {[1 .. n -> Vals] : n \in 0 .. (V_CAP + 1)}

\* iter.collect::<Vec<_, N>>(): from_iter on a Vec it has just made with
\* Vec::new(); items are constructed as the loop takes them
Collect(items) ==
    LET done == FromIter(vec, v_next, items, Len(items))
    IN  /\ v_state = "alive"
        /\ v_last.op = "none"
        /\ vec = VNew
        /\ v_next + done.taken <= MaxElems
        /\ v_next' = v_next + done.taken
        /\ vec' = done.vec
        /\ v_state' = IF done.panicked THEN "panicked" ELSE "alive"
        /\ v_last' = [op |-> "from_iter", ok |-> ~done.panicked, ret |-> NoElem]
        /\ v_drops' = RunDrops(v_drops, done.rejected)
        /\ v_access' = ExtendAccess(vec, done.vec.len)
        /\ v_stack' = <<>>
        /\ VecFrame

CollectCall == \E items \in Iterators : Collect(items)

\* impl Drop for Vec, when the owner's scope ends or a panic unwinds; the
\* fields are left as they were
VecDrop ==
    /\ v_state \in {"alive", "panicked"}
    /\ v_state' = "dropped"
    /\ v_drops' = RunDrops(v_drops, DropDropped(vec))
    /\ vec' = vec
    /\ v_last' = [op |-> "drop", ok |-> TRUE, ret |-> NoElem]
    /\ v_access' = DropAccess(vec)
    /\ v_stack' = <<>>
    /\ UNCHANGED v_next
    /\ VecFrame

\* ------------------------------------------------- truncate, step by step

\* truncate's loop body: `self.len -= 1` comes before drop_in_place, so this
\* is the len in effect while the destructor of slot v.len - 1 runs, and the
\* len left behind if that destructor panics
\* (faulty variant: len is decremented once the destructor has returned)
LenAtDestructorLate(v) == v.len
LenAtDestructor(v) == v.len - 1

\* truncate(len) is called: the loop is entered
TruncBegin(len) ==
    /\ v_state = "alive"
    /\ v_state' = "truncating"
    /\ tr_len' = len
    /\ v_last' = [op |-> "truncate", ok |-> FALSE, ret |-> NoElem]
    /\ v_access' = NoAccess
    /\ v_stack' = <<>>
    /\ UNCHANGED <<vec, v_next, v_drops, it_next, it_clone>>
    /\ UNCHANGED <<rbVars, spscVars, cbVars, lmVars>>

TruncBeginCall == \E len \in 0 .. (V_CAP + 1) : TruncBegin(len)

\* one turn of `while len < self.len`: the destructor of the last element
\* runs, and either returns or panics (T::drop is the caller's code)
TruncIter ==
    /\ v_state = "truncating"
    /\ tr_len < vec.len
    /\ \E panics \in BOOLEAN :
           /\ vec' = [buffer |-> [vec.buffer EXCEPT ![vec.len - 1] = Dead(@)],
                      len |-> IF panics THEN LenAtDestructor(vec) ELSE vec.len - 1]
           /\ v_state' = IF panics THEN "panicked" ELSE "truncating"
    /\ v_drops' = RunDrops(v_drops, <<vec.buffer[vec.len - 1]>>)
    /\ v_access' = Access({vec.len - 1}, {}, vec.len)
    /\ UNCHANGED <<v_next, v_last, v_stack, it_next, it_clone, tr_len>>
    /\ UNCHANGED <<rbVars, spscVars, cbVars, lmVars>>

\* the loop test fails: truncate returns
TruncEnd ==
    /\ v_state = "truncating"
    /\ ~(tr_len < vec.len)
    /\ v_state' = "alive"
    /\ v_last' = [op |-> "truncate", ok |-> TRUE, ret |-> NoElem]
    /\ UNCHANGED <<vec, v_next, v_drops, v_stack, v_access, it_next, it_clone,
                   tr_len>>
    /\ UNCHANGED <<rbVars, spscVars, cbVars, lmVars>>

\* pushes, truncates whose destructors may panic, and the drop of the Vec
TruncNext == PushCall \/ TruncBeginCall \/ TruncIter \/ TruncEnd \/ VecDrop

\* ----------------------------------------------------------- insert_slice_at

\* a value of a Copy type has no destructor: its id lies outside ElemIds
CopyId == MaxElems + 1
Copied(val) == [id |-> CopyId, val |-> val]
\* T::default()
DefaultVal == 0

\* Vec::resize_default(new_len) for new_len <= capacity: pushes of clones of
\* T::default() while len < new_len, else truncate(new_len)
ResizeDefault(v, new_len) ==
    IF new_len > v.len
    THEN [buffer |-> [i \in VSlots |->
                         IF i >= v.len /\ i < new_len THEN Live(Copied(DefaultVal))
                         ELSE v.buffer[i]],
          len |-> new_len]
    ELSE Truncate(v, new_len)

\* ptr::copy(p.add(at), p.add(at + l), l): the slots it reads and writes
CopyReads(at, l) == at .. (at + l - 1)
CopyWrites(at, l) == (at + l) .. (at + 2 * l - 1)

\* the Vec after that copy when it stays inside the buffer: the l slots from
\* at are copied l slots up (a slot at or beyond len that receives a copy is
\* still not an element of the Vec)
MoveBack(v, at, l) ==
    [v EXCEPT !.buffer = [i \in VSlots |->
                             IF i \in CopyWrites(at, l) /\ i < v.len
                             THEN v.buffer[i - l] ELSE v.buffer[i]]]

\* raw[at..][..l].copy_from_slice(slice)
CopyFromSlice(v, at, slice) ==
    [v EXCEPT !.buffer = [i \in VSlots |->
                             IF i >= at /\ i < at + Len(slice)
                             THEN Live(Copied(slice[i - at + 1])) ELSE v.buffer[i]]]

\* Vec::insert_slice_at(slice, at) on values of a Copy type. v_access records
\* the accesses that follow resize_default. `&mut raw[0]` panics on an empty
\* Vec and raw[at..][..l] panics when at > before. A copy that leaves the
\* buffer is undefined behaviour: what lies next to the buffer is
\* overwritten, which may be the field len
InsertSliceAt(slice, at) ==
    LET l       == Len(slice)
        before  == vec.len
        resized == ResizeDefault(vec, before + l)
        moved   == MoveBack(resized, at, l)
        copied  == Access(CopyReads(at, l), CopyWrites(at, l), before + l)
    IN  /\ v_state = "alive"
        /\ IF before + l > VCapacity
           THEN /\ vec' = vec
                /\ v_last' = [op |-> "insert_slice_at", ok |-> FALSE, ret |-> NoElem]
                /\ v_access' = NoAccess
                /\ UNCHANGED v_state
           ELSE IF before + l = 0
           THEN /\ vec' = resized
                /\ v_last' = [op |-> "insert_slice_at", ok |-> FALSE, ret |-> NoElem]
                /\ v_access' = NoAccess
                /\ v_state' = "panicked"
           ELSE IF ~((CopyReads(at, l) \cup CopyWrites(at, l)) \subseteq VSlots)
           THEN /\ \E n \in 0 .. V_CAP : vec' = [moved EXCEPT !.len = n]
                /\ v_last' = [op |-> "insert_slice_at", ok |-> FALSE, ret |-> NoElem]
                /\ v_access' = copied
                /\ v_state' = "undefined"
           ELSE IF at > before
           THEN /\ vec' = moved
                /\ v_last' = [op |-> "insert_slice_at", ok |-> FALSE, ret |-> NoElem]
                /\ v_access' = copied
                /\ v_state' = "panicked"
           ELSE /\ vec' = CopyFromSlice(moved, at, slice)
                /\ v_last' = [op |-> "insert_slice_at", ok |-> TRUE, ret |-> NoElem]
                /\ v_access' = Access(CopyReads(at, l),
                                      CopyWrites(at, l) \cup (at .. (at + l - 1)),
                                      before + l)
                /\ UNCHANGED v_state
        /\ v_stack' = <<>>
        /\ UNCHANGED <<v_next, v_drops>>
        /\ VecFrame

InsertSliceAtCall ==
    \E slice \in Slices, at \in 0 .. (V_CAP + 1) : InsertSliceAt(slice, at)

\* a Vec of Copy values: insert_slice_at, pop and truncate, ended by its drop
SliceNext == InsertSliceAtCall \/ PopCall \/ TruncateCall \/ VecDrop

\* ------------------------------------------------------------------ IntoIter

\* IntoIter::next's test `self.next < self.vec.len()`
IntoIterHasNext(v, next) == next < v.len

\* impl Drop for IntoIter: the slots of self.vec[self.next..], on which
\* drop_in_place runs
\* (faulty variant: the whole of self.vec)
IntoIterDroppedAll(v, next) == 0 .. (v.len - 1)
IntoIterDropped(v, next) == next .. (v.len - 1)

IterFrame == UNCHANGED <<rbVars, spscVars, cbVars, lmVars, it_clone, tr_len>>

\* Vec::into_iter: the Vec moves into IntoIter { vec: self, next: 0 }
IntoIterCall ==
    /\ v_state = "alive"
    /\ v_state' = "iter"
    /\ it_next' = 0
    /\ v_last' = [op |-> "into_iter", ok |-> TRUE, ret |-> NoElem]
    /\ v_access' = NoAccess
    /\ v_stack' = <<>>
    /\ UNCHANGED <<vec, v_next, v_drops>>
    /\ IterFrame

\* IntoIter::next: the element is read out of slot next, and vec.len stays;
\* the caller destroys the element it receives
IntoIterNext ==
    /\ v_state = "iter"
    /\ IF IntoIterHasNext(vec, it_next)
       THEN /\ vec' = [vec EXCEPT !.buffer[it_next] = Dead(@)]
            /\ it_next' = it_next + 1
            /\ v_last' = [op |-> "next", ok |-> TRUE,
                          ret |-> Elem(vec.buffer[it_next])]
            /\ v_drops' = RunDrops(v_drops, <<Elem(vec.buffer[it_next])>>)
            /\ v_access' = Access({it_next}, {}, vec.len)
       ELSE /\ v_last' = [op |-> "next", ok |-> FALSE, ret |-> NoElem]
            /\ v_access' = NoAccess
            /\ UNCHANGED <<vec, it_next, v_drops>>
    /\ v_stack' = <<>>
    /\ UNCHANGED <<v_next, v_state>>
    /\ IterFrame

\* impl Drop for IntoIter: drop_in_place(&mut self.vec[self.next..]), then
\* self.vec.0.len = 0; the drop of the field vec that follows finds no slot
IntoIterDrop ==
    /\ v_state = "iter"
    /\ v_state' = "dropped"
    /\ v_drops' = RunDrops(v_drops,
                           [i \in IntoIterDropped(vec, it_next) |-> vec.buffer[i]])
    /\ v_access' = Access(IntoIterDropped(vec, it_next), {}, vec.len)
    /\ vec' = [buffer |-> [i \in VSlots |->
                              IF i \in IntoIterDropped(vec, it_next)
                              THEN Dead(vec.buffer[i]) ELSE vec.buffer[i]],
               len |-> 0]
    /\ v_last' = [op |-> "iter_drop", ok |-> TRUE, ret |-> NoElem]
    /\ v_stack' = <<>>
    /\ UNCHANGED <<v_next, it_next>>
    /\ IterFrame

\* i::Vec::clone: extend_from_slice(self.as_slice()) clones every slot of
\* [0, len)
CloneSlots(v) == {k - 1 : k \in DOMAIN AsSlice(v)}

CloneFrame ==
    UNCHANGED <<rbVars, spscVars, cbVars, lmVars, vec, v_next, v_drops,
                v_stack, it_next, tr_len>>

\* impl Clone for IntoIter: IntoIter { vec: self.vec.clone(), next: self.next }.
\* T::clone on a slot whose value was moved out by next() reads a value the
\* IntoIter no longer owns, which is undefined behaviour: the call either
\* returns a clone of the stale bits or does anything else.
IntoIterClone ==
    /\ v_state = "iter"
    /\ it_clone.state = "none"
    /\ \E stale_ok \in BOOLEAN :
          IF stale_ok \/ \A i \in CloneSlots(vec) : i >= it_next
          THEN /\ v_state' = v_state
               /\ it_clone' = [state |-> "alive", from |-> it_next,
                               next |-> it_next, len |-> vec.len,
                               reads |-> CloneSlots(vec),
                               made |-> CloneSlots(vec),
                               drops |-> [i \in VSlots |-> 0]]
          ELSE /\ v_state' = "undefined"
               /\ it_clone' = [it_clone EXCEPT !.reads = CloneSlots(vec),
                                               !.from = it_next]
    /\ v_last' = [op |-> "iter_clone", ok |-> TRUE, ret |-> NoElem]
    /\ v_access' = Access(CloneSlots(vec), {}, vec.len)
    /\ CloneFrame

\* IntoIter::next on the clone; the caller destroys the element it receives
CloneNext ==
    /\ it_clone.state = "alive"
    /\ IntoIterHasNext(it_clone, it_clone.next)
    /\ it_clone' = [it_clone EXCEPT !.next = @ + 1,
                                    !.drops[it_clone.next] = @ + 1]
    /\ UNCHANGED <<v_state, v_last, v_access>>
    /\ CloneFrame

\* impl Drop for IntoIter, on the clone
CloneDrop ==
    /\ it_clone.state = "alive"
    /\ it_clone' = [it_clone EXCEPT
                       !.state = "dropped",
                       !.drops = [i \in VSlots |->
                                    IF i \in IntoIterDropped(it_clone, it_clone.next)
                                    THEN @[i] + 1 ELSE @[i]]]
    /\ UNCHANGED <<v_state, v_last, v_access>>
    /\ CloneFrame

\* a Vec filled by pushes, moved into an IntoIter that is advanced, cloned
\* and dropped
IterNext ==
    \/ PushCall \/ IntoIterCall \/ IntoIterNext \/ IntoIterDrop
    \/ IntoIterClone \/ CloneNext \/ CloneDrop

VecNext ==
    \/ PushCall \/ PopCall \/ InsertCall \/ RemoveCall \/ SwapRemoveCall
    \/ TruncateCall \/ ClearCall \/ ResizeCall \/ ExtendFromSliceCall \/ VecDrop
    \/ IntoIterCall \/ IntoIterNext \/ IntoIterDrop \/ CollectCall

\* pushes and pops only
StackNext == PushCall \/ PopCall

\* ------------------------------------------------------------ CircularBuffer

\* the values pushed; the array handed to new holds CBPlaceholder everywhere
CBVals == {1, 2}
CBPlaceholder == 0

\* no CircularBuffer has been constructed
NoCB == [array |-> <<>>, index |-> 0, len |-> 0]

\* CircularBuffer::new(array): slots are numbered from 0
CBNew(array) == [array |-> array, index |-> 0, len |-> 0]

\* CircularBuffer::from_array(array): the values and the length of the array
\* are kept
CBFromArray(array) ==
    [array |-> array, index |-> 0, len |-> Cardinality(DOMAIN array)]

\* CircularBuffer::capacity: self.array.as_ref().len()
CBCapacity(b) == Cardinality(DOMAIN b.array)

\* CircularBuffer::set_len
\* (faulty variant: len is left as it was)
CBSetLenKeep(b, len) == b
CBSetLen(b, len) == [b EXCEPT !.len = len]

\* CircularBuffer::set_index: index % self.capacity()
\* (faulty variant: the index is left where it was)
CBSetIndexStay(b, index) == b
CBSetIndex(b, index) == [b EXCEPT !.index = index % CBCapacity(b)]

\* CircularBuffer::is_full
CBIsFull(b) == b.len = CBCapacity(b)

\* push, `slice[index] = element`
\* (faulty variant: the element goes to the first slot)
CBStoreFirst(b, index, element) == [b EXCEPT !.array[0] = element]
CBStore(b, index, element) == [b EXCEPT !.array[index] = element]

\* impl Deref: the whole array when len is its length, else its first len
\* slots
\* (faulty variant: always the whole array)
CBDerefWhole(b) == [k \in 1 .. CBCapacity(b) |-> b.array[k - 1]]
CBDeref(b) ==
    IF b.len = CBCapacity(b)
    THEN [k \in 1 .. CBCapacity(b) |-> b.array[k - 1]]
    ELSE [k \in 1 .. b.len |-> b.array[k - 1]]

\* push's indexing `slice[index]` is bounds-checked
CBInBounds(b, index) == index \in DOMAIN b.array

CBInit ==
    /\ cb = NoCB
    /\ cb_pushed = <<>>
    /\ cb_state = "none"
    /\ cb_stamp = <<>>
    /\ cb_ctor = [kind |-> "none", array |-> <<>>]

CBFrame == UNCHANGED <<rbVars, spscVars, vecVars, lmVars>>

\* CircularBuffer::new over an array of C slots
CBNewCall ==
    \E C \in 0 .. CB_MAX :
        /\ cb_state = "none"
        /\ cb' = CBNew([i \in 0 .. (C - 1) |-> CBPlaceholder])
        /\ cb_state' = "alive"
        /\ cb_stamp' = [i \in 0 .. (C - 1) |-> 0]
        /\ cb_ctor' = [kind |-> "new", array |-> cb'.array]
        /\ UNCHANGED cb_pushed
        /\ CBFrame

\* CircularBuffer::from_array over an array of C slots holding any values
CBFromArrayCall ==
    \E C \in 0 .. CB_MAX :
        \E array \in [0 .. (C - 1) -> CBVals] :
            /\ cb_state = "none"
            /\ cb' = CBFromArray(array)
            /\ cb_state' = "alive"
            /\ cb_stamp' = [i \in 0 .. (C - 1) |-> 0]
            /\ cb_ctor' = [kind |-> "from_array", array |-> array]
            /\ UNCHANGED cb_pushed
            /\ CBFrame

\* CircularBuffer::push(element): set_len, `slice[index] = element` (which
\* panics when index is out of bounds, the len already set), set_index
CBPush(element) ==
    LET withLen == IF cb.len < CBCapacity(cb) THEN CBSetLen(cb, cb.len + 1) ELSE cb
    IN  /\ cb_state = "alive"
        /\ Len(cb_pushed) < MaxPushes
        /\ cb_pushed' = Append(cb_pushed, element)
        /\ IF CBInBounds(withLen, cb.index)
           THEN /\ cb' = CBSetIndex(CBStore(withLen, cb.index, element),
                                    cb.index + 1)
                /\ cb_stamp' = [cb_stamp EXCEPT ![cb.index] = Len(cb_pushed')]
                /\ cb_state' = "alive"
           ELSE /\ cb' = withLen
                /\ cb_stamp' = cb_stamp
                /\ cb_state' = "panicked"
        /\ UNCHANGED cb_ctor
        /\ CBFrame

CBPushCall == \E element \in CBVals : CBPush(element)

CBNext == CBNewCall \/ CBPushCall

\* the same, the buffer constructed by new or by from_array
CBAnyNext == CBNewCall \/ CBFromArrayCall \/ CBPushCall

\* ---------------------------------------------------------------- LinearMap

\* the keys and values callers pass: one key more than the map can hold
LMKeys == 1 .. (LM_CAP + 1)
LMValues == {0, 1}

\* Option<V>
LMNone == [some |-> FALSE, val |-> 0]
LMSome(value) == [some |-> TRUE, val |-> value]

\* find(|&(k, _)| *k == key) over the pairs in order: the position of the
\* first pair with the key, 0 when there is none
\* (faulty variant: no pair is ever found)
LMFindNone(m, key) == 0
LMFind(m, key) ==
    IF \E i \in 1 .. Len(m) : m[i].key = key
    THEN CHOOSE i \in 1 .. Len(m) :
             m[i].key = key /\ \A j \in 1 .. (i - 1) : m[j].key # key
    ELSE 0

\* LinearMap::insert: mem::swap(v, &mut value) on the pair found
LMReplace(m, i, value) == [m EXCEPT ![i].val = value]

\* Vec::push of the buffer: its capacity test
LMPushFits(m) == Len(m) < LM_CAP

\* Vec::swap_remove(idx) of the buffer: the last pair takes the place of the
\* one removed
LMSwapRemove(m, i) == SubSeq([m EXCEPT ![i] = m[Len(m)]], 1, Len(m) - 1)

\* LinearMap::new
LMInit ==
    /\ lm = <<>>
    /\ lm_last = [op |-> "none", ok |-> FALSE, ret |-> LMNone]

LMFrame == UNCHANGED <<rbVars, spscVars, vecVars, cbVars>>

\* LinearMap::insert(key, value)
LMInsert(key, value) ==
    LET i == LMFind(lm, key)
    IN  /\ IF i # 0
           THEN /\ lm' = LMReplace(lm, i, value)
                /\ lm_last' = [op |-> "insert", ok |-> TRUE, ret |-> LMSome(lm[i].val)]
           ELSE IF LMPushFits(lm)
           THEN /\ lm' = Append(lm, [key |-> key, val |-> value])
                /\ lm_last' = [op |-> "insert", ok |-> TRUE, ret |-> LMNone]
           ELSE /\ lm' = lm
                /\ lm_last' = [op |-> "insert", ok |-> FALSE, ret |-> LMNone]
        /\ LMFrame

LMInsertCall == \E key \in LMKeys, value \in LMValues : LMInsert(key, value)

\* LinearMap::remove(key)
LMRemove(key) ==
    LET i == LMFind(lm, key)
    IN  /\ IF i # 0
           THEN /\ lm' = LMSwapRemove(lm, i)
                /\ lm_last' = [op |-> "remove", ok |-> TRUE, ret |-> LMSome(lm[i].val)]
           ELSE /\ lm' = lm
                /\ lm_last' = [op |-> "remove", ok |-> TRUE, ret |-> LMNone]
        /\ LMFrame

LMRemoveCall == \E key \in LMKeys : LMRemove(key)

LMNext == LMInsertCall \/ LMRemoveCall

vars == <<rbVars, spscVars, vecVars, cbVars, lmVars>>

Init == RBInit /\ SpscInit /\ VecInit /\ CBInit /\ LMInit

\* the RingBuffer called through &mut self: calls do not overlap
RBNext == EnqueueCall \/ DequeueCall \/ RBDrop

SpecRB == Init /\ [][RBNext]_vars

\* the same calls on a RingBuffer over an array of any length from 1 to RB_N
InitAnyN == RBInitAnyN /\ SpscInit /\ VecInit /\ CBInit /\ LMInit

SpecRBAnyN == InitAnyN /\ [][RBNext]_vars

\* one producer inside enqueue and one consumer inside dequeue, interleaved
SpscNext ==
    \/ EnqBegin \/ EnqCheck \/ EnqWrite \/ EnqPublish
    \/ DeqCheck \/ DeqRead \/ DeqPublish

SpecSPSC == Init /\ [][SpscNext]_vars

\* RingBuffer::new over an array of any length from 1 to RB_N, no record kept
\* of the calls
RBInitLive ==
    /\ head = 0
    /\ tail = 0
    /\ buffer \in {[s \in 0 .. (n - 1) |-> [id |-> 0, live |-> FALSE]] :
                       n \in 1 .. RB_N}
    /\ rb_next = 0
    /\ rb_last = NoCall
    /\ enq = <<>>
    /\ deq = <<>>
    /\ rb_drops = [i \in ItemIds |-> 0]
    /\ rb_alive = TRUE
    /\ rb_touched = <<>>
    /\ rb_hist = FALSE

InitLive == RBInitLive /\ SpscInit /\ VecInit /\ CBInit /\ LMInit

\* the steps of the producer, which calls enqueue again and again, and those
\* of the consumer, which calls dequeue again and again
ProducerStep == EnqBegin \/ EnqCheck \/ EnqWrite \/ EnqPublish
ConsumerStep == DeqCheck \/ DeqRead \/ DeqPublish

\* producer and consumer for ever, each of them scheduled again and again:
\* neither role is held up for ever while it has a step to take
SpecSPSCFair ==
    /\ InitLive
    /\ [][SpscNext]_vars
    /\ WF_vars(ProducerStep)
    /\ WF_vars(ConsumerStep)

\* the Vec under every sequence of its calls, ended by its drop
SpecVec == Init /\ [][VecNext]_vars

\* the Vec under sequences of push and pop
SpecIter == Init /\ [][IterNext]_vars

SpecStack == Init /\ [][StackNext]_vars

\* the Vec under pushes and truncates taken one destructor at a time
SpecTrunc == Init /\ [][TruncNext]_vars

\* the Vec of Copy values under insert_slice_at, pop and truncate
SpecSlice == Init /\ [][SliceNext]_vars

\* the LinearMap under every sequence of inserts and removes
SpecMap == Init /\ [][LMNext]_vars

\* a CircularBuffer over an array of any length up to CB_MAX, and its pushes
SpecCB == Init /\ [][CBNext]_vars

SpecCBAny == Init /\ [][CBAnyNext]_vars

\* ------------------------------------------------------ RingBuffer claims

\* the number of elements enqueued and not yet dequeued
Count == Len(enq) - Len(deq)

IsPrefix(s, t) == Len(s) <= Len(t) /\ \A i \in 1 .. Len(s) : s[i] = t[i]

\* C1: under every interleaving of the producer's and the consumer's steps,
\* the values returned by successful dequeues are a prefix of the values
\* accepted by successful enqueues (no reordering, duplication or loss).
C1_Fifo == IsPrefix(deq, enq)

\* a dequeue has returned the item written after the cursors wrapped, while
\* the producer is in the middle of another enqueue
C1_Witness ==
    /\ Len(deq) > RB_N
    /\ prod.pc = "e_publish"
    /\ cons.pc = "idle"

\* C5: a RingBuffer over RB_N slots holds at most RB_N - 1 elements, and right
\* after an enqueue the call has succeeded exactly when fewer than RB_N - 1
\* elements were held before it (a failed call leaves RB_N - 1 held), also
\* after the cursors have wrapped around.
C5_Capacity ==
    /\ Count <= RB_N - 1
    /\ (rb_alive /\ rb_last.op = "enqueue") =>
          /\ rb_last.ok => (Count - 1 < RB_N - 1 /\ enq[Len(enq)] = rb_last.arg)
          /\ ~rb_last.ok => (Count = RB_N - 1 /\ rb_last.arg \notin Range(enq))

\* an enqueue has failed on a full queue whose tail has wrapped below head
C5_Witness ==
    /\ rb_last.op = "enqueue"
    /\ ~rb_last.ok
    /\ tail < head
    /\ Count = RB_N - 1

\* C6: enqueue on a full queue returns an error carrying the rejected item,
\* which is neither stored nor destroyed, and leaves head, tail and every
\* slot unchanged.
C6_FullEnqueueHandsItemBack ==
    [][ (EnqueueCall /\ ~HasRoom(NextIdx(tail, RB_N), head)) =>
            /\ rb_last'.ok = FALSE
            /\ rb_last'.ret = rb_last'.arg
            /\ rb_drops'[rb_last'.arg] = 0
            /\ UNCHANGED <<head, tail, buffer>> ]_vars

\* C7: dequeue on an empty queue returns None and leaves head, tail and every
\* slot's contents unchanged; on a non-empty queue it returns the value at
\* slot head and advances head by one modulo RB_N.
C7_Dequeue ==
    [][ DequeueCall =>
          IF head = tail
          THEN /\ rb_last' = [op |-> "dequeue", ok |-> FALSE, arg |-> 0, ret |-> 0]
               /\ UNCHANGED <<head, tail, buffer>>
          ELSE /\ rb_last'.ok
               /\ rb_last'.ret = buffer[head].id
               /\ buffer[head].live
               /\ head' = (head + 1) % RB_N
               /\ tail' = tail
               /\ \A s \in Slots : buffer'[s].id = buffer[s].id ]_vars

\* a dequeue has returned an item and moved head from the last slot to slot 0
C7_Witness ==
    /\ rb_last.op = "dequeue"
    /\ rb_last.ok
    /\ rb_last.ret = RB_N
    /\ head = 0

\* C8: with no call in flight, len() is the number of elements enqueued and
\* not yet dequeued, (tail - head) mod RB_N, and is_empty() is true exactly
\* when that number is 0.
C8_LenIsCount ==
    rb_alive =>
        /\ Count = (tail - head) % RB_N
        /\ RBLen(head, tail) = Count
        /\ RBIsEmpty(head, tail) <=> (Count = 0)

\* C9: dropping the RingBuffer runs drop_in_place on exactly the occupied
\* slots, once each, so every element enqueued and not dequeued is destroyed
\* once and no dequeued element is destroyed again.
C9_DropExact ==
    ~rb_alive =>
        LET occupied == {(head + k) % RB_N : k \in 0 .. (Count - 1)}
        IN  /\ Range(rb_touched) = occupied
            /\ Len(rb_touched) = Cardinality(occupied)
            /\ \A i \in Range(deq) : rb_drops[i] = 0
            /\ \A i \in Range(enq) \ Range(deq) : rb_drops[i] = 1

\* ------------------------------------------------------------- Vec claims

\* C2: after any sequence of push, pop, insert, remove, swap_remove, truncate,
\* resize, extend_from_slice and clear, 0 <= len() <= capacity() and capacity()
\* is still N (the backing storage still has its N slots).
C2_LenWithinCapacity ==
    /\ 0 <= vec.len
    /\ vec.len <= VCapacity
    /\ VCapacity = V_CAP
    /\ DOMAIN vec.buffer = VSlots

\* a resize has grown the Vec to exactly its capacity
C2_Witness ==
    /\ v_last.op = "resize"
    /\ v_last.ok
    /\ vec.len = VCapacity

\* C3: under pushes and pops, a pop returns the most recently pushed element
\* not yet popped and decrements len by 1; a pop on an empty Vec returns None
\* and leaves it empty.
C3_PopIsLastPushed ==
    [][ PopCall =>
          IF v_stack = <<>>
          THEN /\ v_last'.ok = FALSE
               /\ v_last'.ret = NoElem
               /\ vec.len = 0
               /\ vec'.len = 0
          ELSE /\ v_last'.ok
               /\ v_last'.ret = v_stack[Len(v_stack)]
               /\ vec'.len = vec.len - 1 ]_vars

\* a pop has taken the top off a full Vec on which a push had failed, with
\* older elements still below it
C3_Witness ==
    /\ v_last.op = "pop"
    /\ v_last.ok
    /\ v_next > V_CAP
    /\ vec.len = V_CAP - 1
    /\ Len(v_stack) = V_CAP - 1

\* C4: push(item) with len == capacity returns Err carrying exactly item and
\* leaves len and every stored element unchanged; with len < capacity it
\* returns Ok, stores item at index len and increments len by 1.
C4_Push ==
    [][ \A val \in Vals :
          Push(val) =>
            LET item == [id |-> v_next + 1, val |-> val]
            IN  IF vec.len = V_CAP
                THEN /\ v_last'.ok = FALSE
                     /\ v_last'.ret = item
                     /\ vec' = vec
                ELSE /\ v_last'.ok
                     /\ vec'.len = vec.len + 1
                     /\ vec'.buffer[vec.len] = item
                     /\ \A i \in 0 .. (vec.len - 1) :
                            vec'.buffer[i] = vec.buffer[i] ]_vars

\* a push on a full Vec has handed its item back
C4_Witness ==
    /\ v_last.op = "push"
    /\ ~v_last.ok
    /\ v_last.ret.id = v_next
    /\ vec.len = VCapacity

\* C10: no element is ever destroyed twice, no element the Vec holds has
\* been destroyed, and once the Vec has been dropped every element ever
\* constructed has been destroyed exactly once.
C10_DestroyedOnce ==
    /\ \A i \in ElemIds : v_drops[i] <= 1
    /\ v_state \in {"alive", "panicked"} =>
          \A k \in 0 .. (vec.len - 1) :
              vec.buffer[k].id \in 1 .. v_next /\ v_drops[vec.buffer[k].id] = 0
    /\ v_state = "dropped" => \A i \in 1 .. v_next : v_drops[i] = 1

\* a Vec still holding two elements has been dropped after every element
\* the bound allows was constructed and some were taken out before
C10_Witness ==
    /\ v_state = "dropped"
    /\ vec.len >= 2
    /\ v_next = MaxElems

\* ---------------------------------------------------------- IntoIter claims

\* C11: when an IntoIter that has yielded it_next of the vec.len elements is
\* dropped, its destructor runs on exactly the slots [it_next, vec.len), each
\* of which holds an element not destroyed before; the destructor count of
\* each of these rises by one, no other count changes (no element already
\* yielded is destroyed again), and afterwards every element ever
\* constructed has been destroyed exactly once.
C11_IntoIterDrop ==
    [][IntoIterDrop =>
          /\ v_access'.reads = it_next .. (vec.len - 1)
          /\ \A i \in it_next .. (vec.len - 1) :
                 /\ vec.buffer[i].id \in 1 .. v_next
                 /\ v_drops[vec.buffer[i].id] = 0
                 /\ v_drops'[vec.buffer[i].id] = 1
          /\ \A id \in ElemIds :
                 (\A i \in it_next .. (vec.len - 1) : vec.buffer[i].id # id)
                     => v_drops'[id] = v_drops[id]
          /\ \A id \in 1 .. v_next : v_drops'[id] = 1]_vars

\* an IntoIter over a full Vec has been dropped after yielding one element
C11_Witness ==
    /\ v_last.op = "iter_drop"
    /\ it_next = 1
    /\ v_access.len = VCapacity
    /\ v_access.reads = 1 .. (VCapacity - 1)

\* C12: whenever a call on the Vec has returned, returned an error or
\* panicked (a panic of an element's clone in the middle of
\* extend_from_slice included), the initialized slots are exactly [0, len),
\* so len is their number, and the call has read no slot at an index >= the
\* len the Vec had when it read.
C12_LenIsInitialized ==
    /\ v_state \in {"alive", "panicked", "undefined"} =>
           \A i \in VSlots : (i < vec.len) <=> (vec.buffer[i] # NoSlot)
    /\ v_access.reads \subseteq 0 .. (v_access.len - 1)

\* ---------------------------------------------------- CircularBuffer claims

\* the number of slots of the array holding x, and the number of x among the
\* last n values pushed
CBHeld(x) == Cardinality({i \in DOMAIN cb.array : cb.array[i] = x})
CBRecent(x, n) ==
    Cardinality({k \in (Len(cb_pushed) - n + 1) .. Len(cb_pushed) : cb_pushed[k] = x})

\* C13: once a CircularBuffer created empty over an array of C slots has had
\* C + k values pushed (k >= 0), len() is C and the array holds exactly the
\* C most recently pushed values, as a multiset.
C13_MostRecent ==
    (cb_state = "alive" /\ Len(cb_pushed) >= CBCapacity(cb)) =>
        /\ cb.len = CBCapacity(cb)
        /\ \A x \in CBVals \cup {CBPlaceholder} :
               CBHeld(x) = CBRecent(x, CBCapacity(cb))

\* a buffer over two slots has overwritten both of its first two values,
\* and the two it holds differ
C13_Witness ==
    /\ cb_state = "alive"
    /\ CBCapacity(cb) = 2
    /\ Len(cb_pushed) = 4
    /\ cb.array[0] # cb.array[1]

\* C14: no call of CircularBuffer::push ends abruptly, whatever the length
\* (zero included) of the backing array.
C14_PushAlwaysSucceeds == cb_state # "panicked"

\* ------------------------------------------------- Vec insert/remove claims

\* C15: in every state with len < capacity, for every index <= len and every
\* item, insert(index, item) succeeds and the remove(index) that follows it
\* returns item and leaves the slots and the length the Vec had before.
C15_InsertThenRemove ==
    (v_state = "alive" /\ vec.len < VCapacity) =>
        \A index \in 0 .. vec.len, val \in Vals :
            LET item == Fresh(v_next, 1, val)
                mid  == InsertUnchecked(vec, index, item)
            IN  /\ InsertAssert(vec, index)
                /\ InsertFits(vec, index)
                /\ RemoveInBounds(mid, index)
                /\ RemoveUncheckedRet(mid, index) = item
                /\ RemoveUnchecked(mid, index).len = vec.len
                /\ AsSlice(RemoveUnchecked(mid, index)) = AsSlice(vec)
                /\ RemoveUnchecked(mid, index) = vec

\* a Vec with room for one more element holds two elements that differ, so
\* that an insertion before, between and after them can be undone
C15_Witness ==
    /\ v_state = "alive"
    /\ vec.len = 2
    /\ vec.len < VCapacity
    /\ vec.buffer[0].val # vec.buffer[1].val

\* C16: insert(index, item) called with len = capacity or with index > len
\* returns Err(item), the item being the one passed in, and leaves the
\* length and the contents as they were.
C16_InsertErr ==
    [][\A index \in 0 .. (V_CAP + 1), val \in Vals :
          (Insert(index, val) /\ (vec.len = VCapacity \/ index > vec.len)) =>
              /\ v_state' = "alive"
              /\ ~v_last'.ok
              /\ v_last'.ret = Fresh(v_next, 1, val)
              /\ vec' = vec]_vars

\* C17: insert(index, item) called with index <= len < capacity succeeds and
\* leaves old[0 .. index) ++ [item] ++ old[index .. len), the length one more.
C17_Insert ==
    [][\A index \in 0 .. (V_CAP + 1), val \in Vals :
          (Insert(index, val) /\ index <= vec.len /\ vec.len < VCapacity) =>
              /\ v_state' = "alive"
              /\ v_last'.ok
              /\ vec'.len = vec.len + 1
              /\ AsSlice(vec') = SubSeq(AsSlice(vec), 1, index)
                                     \o <<Fresh(v_next, 1, val)>>
                                     \o SubSeq(AsSlice(vec), index + 1, vec.len)]_vars

\* the element constructed last has been inserted between two others
C17_Witness ==
    /\ v_last.op = "insert"
    /\ v_last.ok
    /\ vec.len = 3
    /\ vec.buffer[1].id = v_next
    /\ v_access.reads = {1}

\* C18: remove(index) called with index < len returns the element that was
\* at index and leaves old[0 .. index) ++ old[index + 1 .. len), the length
\* one less.
C18_Remove ==
    [][\A index \in 0 .. V_CAP :
          (Remove(index) /\ index < vec.len) =>
              /\ v_last'.ok
              /\ v_last'.ret = vec.buffer[index]
              /\ v_last'.ret.id \in 1 .. v_next
              /\ vec'.len = vec.len - 1
              /\ AsSlice(vec') = SubSeq(AsSlice(vec), 1, index)
                                     \o SubSeq(AsSlice(vec), index + 2, vec.len)]_vars

\* the middle one of three elements has been removed
C18_Witness ==
    /\ v_last.op = "remove"
    /\ v_last.ok
    /\ v_access.len = 3
    /\ v_access.reads = {1, 2}
    /\ vec.len = 2

\* C19: remove(index) called with index >= len, the empty Vec included,
\* returns an error value and leaves the length and the contents as they
\* were; no element is destroyed.
C19_RemoveErr ==
    [][\A index \in 0 .. V_CAP :
          (Remove(index) /\ index >= vec.len) =>
              /\ v_state' = "alive"
              /\ ~v_last'.ok
              /\ v_last'.ret = NoElem
              /\ vec' = vec
              /\ v_drops' = v_drops]_vars

\* a remove on a Vec holding two elements has returned an error
C19_Witness ==
    /\ v_last.op = "remove"
    /\ ~v_last.ok
    /\ v_state = "alive"
    /\ vec.len = 2

\* C20: swap_remove(index) called with index < len returns the element that
\* was at index, leaves the element that was last at index (when index was
\* not the last position), every other element where it was, and the length
\* one less.
C20_SwapRemove ==
    [][\A index \in 0 .. V_CAP :
          (SwapRemove(index) /\ index < vec.len) =>
              /\ v_state' = "alive"
              /\ v_last'.ok
              /\ v_last'.ret = vec.buffer[index]
              /\ v_last'.ret.id \in 1 .. v_next
              /\ vec'.len = vec.len - 1
              /\ index # vec.len - 1 => vec'.buffer[index] = vec.buffer[vec.len - 1]
              /\ \A i \in 0 .. (vec.len - 2) :
                     i # index => vec'.buffer[i] = vec.buffer[i]]_vars

\* the first of three elements has been taken out by swap_remove
C20_Witness ==
    /\ v_last.op = "swap_remove"
    /\ v_last.ok
    /\ v_access.len = 3
    /\ v_access.reads = {0, 2}
    /\ vec.len = 2

\* ---------------------------------------------------------- LinearMap claims

\* the keys of the pairs held
LMHas(m, key) == \E i \in 1 .. Len(m) : m[i].key = key
\* no key is stored twice
LMNoDup(m) == \A i, j \in 1 .. Len(m) : m[i].key = m[j].key => i = j
\* insert on a key that is present: the value of its pair is replaced, the
\* old value is returned and nothing else changes
LMReplaced(key, value) ==
    /\ lm_last'.ok
    /\ lm_last'.ret.some
    /\ Len(lm') = Len(lm)
    /\ \A i \in 1 .. Len(lm) :
           IF lm[i].key = key
           THEN lm_last'.ret.val = lm[i].val /\ lm'[i] = [key |-> key, val |-> value]
           ELSE lm'[i] = lm[i]
\* insert on a key that is absent: the pair is appended and None returned
LMAppended(key, value) ==
    /\ lm_last'.ok
    /\ lm_last'.ret = LMNone
    /\ lm' = Append(lm, [key |-> key, val |-> value])

\* C29 (as stated): insert on a key that is present replaces its value,
\* returns the old value and keeps len, also on a full map; insert on a key
\* that is absent appends the pair, returns None and len grows by 1; and no
\* key is ever stored twice.
C29_InsertAsStated ==
    [][/\ \A key \in LMKeys, value \in LMValues :
              LMInsert(key, value) =>
                  IF LMHas(lm, key) THEN LMReplaced(key, value)
                  ELSE LMAppended(key, value)
       /\ LMNoDup(lm')]_vars

\* C29 (amended): as stated, except that an insert on a key that is absent
\* appends the pair only while len < capacity; on a full map it returns an
\* error and leaves the map as it was.
C29_Insert ==
    [][/\ \A key \in LMKeys, value \in LMValues :
              LMInsert(key, value) =>
                  IF LMHas(lm, key) THEN LMReplaced(key, value)
                  ELSE IF Len(lm) < LM_CAP THEN LMAppended(key, value)
                  ELSE ~lm_last'.ok /\ lm' = lm
       /\ LMNoDup(lm')
       /\ Len(lm') <= LM_CAP]_vars

\* an insert has replaced the value of a key on a full map, which had lost
\* and regained pairs before
C29_Witness ==
    /\ lm_last.op = "insert"
    /\ lm_last.ok
    /\ lm_last.ret.some
    /\ Len(lm) = LM_CAP
    /\ lm[1].key > lm[Len(lm)].key
    /\ lm_last.ret.val # lm[1].val

\* ------------------------------------------- Vec error and resizing claims

\* C21: swap_remove(index) called with index >= len panics instead of
\* returning an error value, and the Vec is as it was when it does: no slot
\* has changed, len is the same and no element has been destroyed.
C21_SwapRemovePanics ==
    [][\A index \in 0 .. V_CAP :
          (SwapRemove(index) /\ index >= vec.len) =>
              /\ v_state' = "panicked"
              /\ ~v_last'.ok
              /\ v_last'.ret = NoElem
              /\ vec' = vec
              /\ v_drops' = v_drops]_vars

\* a swap_remove on a Vec holding two elements has panicked
C21_Witness ==
    /\ v_state = "panicked"
    /\ v_last.op = "swap_remove"
    /\ vec.len = 2

\* C22: extend_from_slice(other) called with len + other.len() > capacity
\* returns an error and leaves the Vec as it was; called with
\* len + other.len() <= capacity, when it returns it has appended a clone of
\* every element of other, in order.
C22_ExtendAllOrNothing ==
    [][\A other \in Slices :
          ExtendFromSlice(other) =>
              IF vec.len + Len(other) > VCapacity
              THEN /\ v_state' = "alive"
                   /\ ~v_last'.ok
                   /\ vec' = vec
              ELSE v_state' = "alive" =>
                   /\ v_last'.ok
                   /\ vec'.len = vec.len + Len(other)
                   /\ AsSlice(vec') =
                          AsSlice(vec) \o [k \in 1 .. Len(other) |->
                                              Fresh(v_next, k, other[k])]]_vars

\* a Vec holding two elements, with room for one more, has refused a slice
C22_Witness ==
    /\ v_last.op = "extend_from_slice"
    /\ ~v_last.ok
    /\ v_state = "alive"
    /\ vec.len = 2
    /\ vec.len < VCapacity

\* C23: resize(new_len, value), and resize_default(new_len) which is resize
\* with the default value, called with new_len > capacity return an error
\* and leave the Vec as it was.
C23_ResizeErr ==
    [][\A new_len \in 0 .. (V_CAP + 1), val \in Vals :
          (Resize(new_len, val) /\ new_len > VCapacity) =>
              /\ v_state' = "alive"
              /\ ~v_last'.ok
              /\ vec' = vec]_vars

\* a resize of a Vec holding one element has returned an error
C23_Witness ==
    /\ v_last.op = "resize"
    /\ ~v_last.ok
    /\ vec.len = 1

\* C24: resize(new_len, value) called with new_len <= capacity succeeds and
\* leaves len = new_len, the first min(old len, new_len) elements as they
\* were, every added element a clone of value, and no slot initialized
\* beyond new_len.
C24_Resize ==
    [][\A new_len \in 0 .. (V_CAP + 1), val \in Vals :
          (Resize(new_len, val) /\ new_len <= VCapacity) =>
              /\ v_last'.ok
              /\ vec'.len = new_len
              /\ \A i \in VSlots :
                     IF i < vec.len /\ i < new_len THEN vec'.buffer[i] = vec.buffer[i]
                     ELSE IF i < new_len
                     THEN /\ vec'.buffer[i].val = val
                          /\ vec'.buffer[i].id \in (v_next + 2) .. v_next'
                     ELSE vec'.buffer[i] = NoSlot]_vars

\* a resize has grown a Vec of one element by two clones of another value
C24_Witness ==
    /\ v_last.op = "resize"
    /\ v_last.ok
    /\ v_access.writes = {1, 2}
    /\ vec.len = 3
    /\ vec.buffer[0].val # vec.buffer[1].val

\* the Vec and the destructor counts after the elements at [len, vec.len)
\* have been destroyed once each and nothing else has changed
TruncatedTo(len) ==
    /\ vec'.len = len
    /\ \A i \in VSlots :
           vec'.buffer[i] = IF i < len THEN vec.buffer[i] ELSE NoSlot
    /\ \A id \in ElemIds :
           v_drops'[id] =
               IF \E i \in len .. (vec.len - 1) : vec.buffer[i].id = id
               THEN v_drops[id] + 1 ELSE v_drops[id]

\* C25: truncate(new_len) called with new_len < len destroys exactly the
\* elements at [new_len, len), keeps the first new_len elements and sets len
\* to new_len; called with new_len >= len it changes nothing; clear() does
\* what truncate(0) does.
C25_Truncate ==
    [][/\ \A len \in 0 .. (V_CAP + 1) :
              TruncateTo(len) =>
                  IF len < vec.len THEN TruncatedTo(len)
                  ELSE vec' = vec /\ v_drops' = v_drops
       /\ ClearCall => TruncatedTo(0)]_vars

\* a truncate has destroyed the last two of three elements
C25_Witness ==
    /\ v_last.op = "truncate"
    /\ v_access.len = 3
    /\ v_access.reads = {1, 2}
    /\ vec.len = 1

\* ----------------------------------------------------- RingBuffer iteration

\* C26: with no call in flight, iter() and iter_mut() yield exactly the
\* elements enqueued and not yet dequeued, oldest first, and then None, also
\* when the cursors have wrapped.
C26_IterFifo ==
    rb_alive => IterItems(buffer, head, tail) = SubSeq(enq, Len(deq) + 1, Len(enq))

\* ------------------------------------------------------ insert_slice_at claims

\* C28: insert_slice_at(slice, at) called with at <= len and
\* len + slice.len() <= capacity succeeds and leaves
\* old[0 .. at) ++ slice ++ old[at .. len).
C28_InsertSliceAt ==
    [][\A slice \in Slices, at \in 0 .. (V_CAP + 1) :
          (/\ InsertSliceAt(slice, at)
           /\ at <= vec.len
           /\ vec.len + Len(slice) <= VCapacity) =>
              /\ v_state' = "alive"
              /\ v_last'.ok
              /\ vec'.len = vec.len + Len(slice)
              /\ AsSlice(vec') =
                     SubSeq(AsSlice(vec), 1, at)
                         \o [k \in 1 .. Len(slice) |-> Copied(slice[k])]
                         \o SubSeq(AsSlice(vec), at + 1, vec.len)]_vars

\* ----------------------------------------------------------- collect claims

\* C27: collecting an iterator of more than N items into a Vec of capacity
\* N panics, and collecting at most N items yields a Vec that holds exactly
\* those items, in order.
C27_Collect ==
    [][\A items \in Iterators :
          Collect(items) =>
              IF Len(items) > VCapacity
              THEN v_state' = "panicked"
              ELSE /\ v_state' = "alive"
                   /\ vec'.len = Len(items)
                   /\ AsSlice(vec') = [k \in 1 .. Len(items) |->
                                          Fresh(v_next, k, items[k])]
                   /\ v_drops' = v_drops]_vars

\* a collect has panicked on the item that follows the N-th
C27_Witness ==
    /\ v_last.op = "from_iter"
    /\ v_state = "panicked"
    /\ vec.len = VCapacity
    /\ v_next = VCapacity + 1

\* ---------------------------------------------------- truncate ordering claim

\* C30: in truncate, when the destructor of an element is invoked len has
\* already been decremented to exclude its slot: if the destructor panics,
\* the slot lies at or beyond len, and the drop of the Vec that follows
\* runs only on slots that hold elements not destroyed before, so no element
\* is destroyed twice.
C30_LenBeforeDestructor ==
    [][/\ TruncIter => vec'.len <= vec.len - 1
       /\ VecDrop => \A i \in 0 .. (vec.len - 1) :
                         /\ vec.buffer[i] # NoSlot
                         /\ v_drops[vec.buffer[i].id] = 0
       /\ \A id \in ElemIds : v_drops'[id] <= 1]_vars

\* the destructor of the second of two elements has panicked inside truncate
\* and len is 1
C30_Witness ==
    /\ v_state = "panicked"
    /\ v_last.op = "truncate"
    /\ v_access.reads = {1}
    /\ vec.len = 1
    /\ vec.buffer[0] # NoSlot

\* ------------------------------------------------- SPSC publication ordering

\* C31: in enqueue the item is written into slot tail before the new tail is
\* published, and in dequeue the value is moved out of slot head before the
\* new head is published; so, under every interleaving of the producer's and
\* the consumer's steps, the consumer reads only a slot whose write has
\* completed and the producer writes only a slot the consumer has finished
\* reading.
C31_WriteBeforePublish ==
    [][/\ tail' # tail =>
             /\ buffer[tail] = [id |-> prod.item, live |-> TRUE]
             /\ buffer' = buffer
       /\ head' # head =>
             /\ ~buffer[head].live
             /\ cons.item = buffer[head].id
             /\ buffer' = buffer
       /\ (cons.pc = "d_read" /\ cons'.pc = "d_publish") =>
             /\ buffer[head].live
             /\ ~(prod.pc = "e_write" /\ tail = head)
       /\ (prod.pc = "e_write" /\ prod'.pc = "e_publish") =>
             /\ ~buffer[tail].live
             /\ ~(cons.pc = "d_read" /\ head = tail)]_vars

\* producer and consumer are both between their slot access and their
\* publication, the cursors having wrapped around the array
C31_Witness ==
    /\ prod.pc = "e_publish"
    /\ cons.pc = "d_publish"
    /\ tail < head
    /\ Len(deq) > 0

\* ------------------------------------------------------ cursor frame claim

\* C32: enqueue never changes head and dequeue never changes tail; tail is
\* modified only by a successful enqueue and head only by a successful
\* dequeue; an enqueue on a full queue and a dequeue on an empty queue change
\* neither cursor.
C32_CursorFrame ==
    [][/\ rb_last'.op = "enqueue" =>
             /\ head' = head
             /\ (tail' # tail) = rb_last'.ok
             /\ NextIdx(tail, RBCapacity + 1) = head =>
                    (tail' = tail /\ ~rb_last'.ok)
       /\ rb_last'.op = "dequeue" =>
             /\ tail' = tail
             /\ (head' # head) = rb_last'.ok
             /\ head = tail => (head' = head /\ ~rb_last'.ok)
       /\ tail' # tail => (rb_last'.op = "enqueue" /\ rb_last'.ok)
       /\ head' # head => (rb_last'.op = "dequeue" /\ rb_last'.ok)]_vars

\* an enqueue has just failed on a full queue whose tail has wrapped below
\* head
C32_Witness ==
    /\ rb_last.op = "enqueue"
    /\ ~rb_last.ok
    /\ tail < head
    /\ Len(enq) - Len(deq) = RBCapacity

\* ------------------------------------------------- RingBuffer cursor states

\* the array length N of the RingBuffer
RBSlots == Cardinality(DOMAIN buffer)
RBEmpty == head = tail
RBFull == (tail + 1) % RBSlots = head
RBPartial == ~RBEmpty /\ ~RBFull

\* C33, as stated: in every reachable state of a RingBuffer over N >= 1
\* slots, head and tail are both in [0, N) and the queue is in exactly one of
\* the states Empty (head == tail), Full ((tail + 1) mod N == head) or
\* Partial; Empty and Full never hold in the same state.
C33_AsStated ==
    /\ head \in 0 .. (RBSlots - 1)
    /\ tail \in 0 .. (RBSlots - 1)
    /\ ~(RBEmpty /\ RBFull)
    /\ Cardinality({x \in {"empty", "full", "partial"} :
                      \/ x = "empty" /\ RBEmpty
                      \/ x = "full" /\ RBFull
                      \/ x = "partial" /\ RBPartial}) = 1

\* C33, amended: in every reachable state of a RingBuffer over N >= 1 slots
\* head and tail are both in [0, N); over N >= 2 slots the queue is in
\* exactly one of the states Empty, Full or Partial and holds N - 1 elements
\* exactly when Full and none exactly when Empty; over N = 1 slot (capacity 0)
\* head == tail == 0 always, so the queue is Empty and Full at once.
C33_CursorStates ==
    /\ head \in 0 .. (RBSlots - 1)
    /\ tail \in 0 .. (RBSlots - 1)
    /\ RBSlots >= 2 =>
          /\ ~(RBEmpty /\ RBFull)
          /\ Cardinality({x \in {"empty", "full", "partial"} :
                            \/ x = "empty" /\ RBEmpty
                            \/ x = "full" /\ RBFull
                            \/ x = "partial" /\ RBPartial}) = 1
          /\ RBFull <=> Count = RBSlots - 1
          /\ RBEmpty <=> Count = 0
    /\ RBSlots = 1 => (RBEmpty /\ RBFull /\ Count = 0)

\* a queue over RB_N slots is Full with its tail wrapped below head, after
\* having been Partial and Empty
C33_Witness ==
    /\ RBSlots = RB_N
    /\ RBFull
    /\ tail < head
    /\ Len(deq) > 0

\* ---------------------------------------------- CircularBuffer cursor claims

\* C34: a push onto a full CircularBuffer (len == C, C >= 1) writes the new
\* value into the slot at the write cursor, which is a least recently written
\* slot, leaves every other slot and len unchanged, and advances the cursor
\* by one modulo C.
C34_PushOnFull ==
    [][(/\ cb_state = "alive"
        /\ cb.len = Cardinality(DOMAIN cb.array)
        /\ Cardinality(DOMAIN cb.array) >= 1
        /\ Len(cb_pushed') = Len(cb_pushed) + 1) =>
           /\ cb_state' = "alive"
           /\ cb'.array[cb.index] = cb_pushed'[Len(cb_pushed')]
           /\ \A j \in DOMAIN cb.array :
                  /\ cb_stamp[cb.index] <= cb_stamp[j]
                  /\ j # cb.index => cb'.array[j] = cb.array[j]
           /\ DOMAIN cb'.array = DOMAIN cb.array
           /\ cb'.len = cb.len
           /\ cb'.index = (cb.index + 1) % Cardinality(DOMAIN cb.array)]_vars

\* a buffer over three slots, full since more than three pushes, has just had
\* a value written over a different one in its middle slot
C34_Witness ==
    /\ cb_state = "alive"
    /\ Cardinality(DOMAIN cb.array) = 3
    /\ Len(cb_pushed) = 5
    /\ cb.index = 2
    /\ cb_pushed[5] # cb_pushed[2]
    /\ cb.array[1] = cb_pushed[5]

\* the number C of slots of the CircularBuffer's array
CBSlots == Cardinality(DOMAIN cb.array)
Min(a, b) == IF a < b THEN a ELSE b

\* what C35 says of a buffer created with new() over C >= 1 slots, and of
\* is_full() and len in every buffer
CBCounts ==
    /\ (cb_state = "alive" /\ cb_ctor.kind = "new" /\ CBSlots >= 1) =>
           /\ cb.len = Min(Len(cb_pushed), CBSlots)
           /\ cb.index = Len(cb_pushed) % CBSlots
    /\ (cb_state = "alive" /\ cb_ctor.kind = "from_array"
            /\ cb_pushed = <<>>) =>
           /\ cb.len = CBSlots
           /\ cb.index = 0
    /\ cb_state # "none" =>
           /\ cb.len <= CBSlots
           /\ CBIsFull(cb) <=> (cb.len = CBSlots)

\* C35, as stated: for a CircularBuffer created with new() over C >= 1 slots,
\* after any number p of pushes len() == min(p, C) and index() == p mod C;
\* for every CircularBuffer (including one built with from_array, which
\* starts with len == C and index == 0) len <= C and index < C hold in every
\* reachable state, and is_full() is true exactly when len == C.
C35_AsStated ==
    /\ CBCounts
    /\ cb_state # "none" => cb.index < CBSlots

\* C35, amended: the same, with index < C in every reachable state of every
\* CircularBuffer over C >= 1 slots; over C == 0 slots index is 0.
C35_Counts ==
    /\ CBCounts
    /\ (cb_state # "none" /\ CBSlots >= 1) => cb.index < CBSlots
    /\ (cb_state # "none" /\ CBSlots = 0) => cb.index = 0

\* a buffer created with new() over three slots has had five values pushed
C35_Witness ==
    /\ cb_state = "alive"
    /\ cb_ctor.kind = "new"
    /\ CBSlots = 3
    /\ Len(cb_pushed) = 5
    /\ cb.len = 3
    /\ cb.index = 2

\* the pushes that went to a position congruent to slot i modulo C, the
\* first push being at position 0
CBPushesAt(i) == {p \in 1 .. Len(cb_pushed) : (p - 1) % CBSlots = i}
Max(S) == CHOOSE x \in S : \A y \in S : y <= x

\* the C most recently pushed values, oldest first
CBChronological ==
    [k \in 1 .. CBSlots |-> cb_pushed[Len(cb_pushed) - CBSlots + k]]

\* C36: the slice view (deref) of a CircularBuffer is the first len slots of
\* the backing array in storage order: before saturation it lists the pushed
\* values in push order; once saturated it is the whole backing array in raw
\* slot order, slot i holding the most recent value pushed at a position
\* congruent to i mod C (the value the array was constructed with where there
\* was no such push), not rotated into chronological order.
C36_DerefView ==
    cb_state = "alive" =>
        /\ Len(CBDeref(cb)) = cb.len
        /\ \A k \in 1 .. cb.len : CBDeref(cb)[k] = cb.array[k - 1]
        /\ cb.len < CBSlots => CBDeref(cb) = cb_pushed
        /\ cb.len = CBSlots =>
              /\ Len(CBDeref(cb)) = CBSlots
              /\ \A i \in 0 .. (CBSlots - 1) :
                     CBDeref(cb)[i + 1] =
                        IF CBPushesAt(i) = {}
                        THEN cb_ctor.array[i]
                        ELSE cb_pushed[Max(CBPushesAt(i))]

\* the view of a saturated buffer over three slots, after four pushes, is not
\* the last three values in the order they were pushed
C36_Witness ==
    /\ cb_state = "alive"
    /\ cb_ctor.kind = "new"
    /\ CBSlots = 3
    /\ Len(cb_pushed) = 4
    /\ CBDeref(cb) # CBChronological
    /\ CBDeref(cb)[1] = cb_pushed[4]

\* ------------------------------------------------------ IntoIter clone claim

\* C37: cloning an IntoIter that has already yielded k >= 1 elements reads
\* only the len - k not-yet-yielded elements and never a slot whose value
\* was already moved out, and dropping the clone destroys every element the
\* clone created exactly once (none leaked).
C37_CloneOfAdvanced ==
    (v_last.op = "iter_clone" \/ it_clone.state # "none") =>
        (it_clone.from >= 1 =>
            /\ v_state # "undefined"
            /\ it_clone.reads = it_clone.from .. (it_clone.len - 1)
            /\ it_clone.state = "dropped" =>
                  \A i \in it_clone.made : it_clone.drops[i] = 1)

\* C38: insert_slice_at(slice, at) with at <= len and
\* len + slice.len() <= capacity never reads or writes a slot at an index >=
\* the new length len + slice.len() (and so never outside the backing
\* storage), and never terminates abruptly.
C38_InsertSliceAtAccess ==
    [][\A slice \in Slices, at \in 0 .. (V_CAP + 1) :
          (/\ InsertSliceAt(slice, at)
           /\ at <= vec.len
           /\ vec.len + Len(slice) <= VCapacity) =>
              /\ v_state' \notin {"panicked", "undefined"}
              /\ \A i \in v_access'.reads \cup v_access'.writes :
                     i < vec.len + Len(slice)]_vars

\* --------------------------------------------------------- progress claims

\* every call that has begun returns
CallsReturn ==
    /\ (prod.pc # "idle") ~> (prod.pc = "idle")
    /\ (cons.pc # "idle") ~> (cons.pc = "idle")

\* on a full queue whose tail is t, with the producer retrying and the
\* consumer dequeuing, an enqueue eventually succeeds (tail leaves t)
ProducerProgress(t) == (RBFull /\ tail = t) ~> (tail # t)

\* on an empty queue whose head is h, with the consumer retrying and the
\* producer enqueuing, a dequeue eventually returns a value (head leaves h)
ConsumerProgress(h) == (RBEmpty /\ head = h) ~> (head # h)

\* C39, as stated: every enqueue and dequeue call returns a definite outcome
\* without waiting, and under weak fairness of the other role a retrying
\* caller makes progress: if the consumer keeps calling dequeue, a producer
\* that keeps retrying enqueue on a full queue eventually succeeds, and if
\* the producer keeps enqueuing, a consumer that keeps retrying dequeue on an
\* empty queue eventually receives a value.
C39_AsStated ==
    /\ CallsReturn
    /\ \A t \in 0 .. (RB_N - 1) : ProducerProgress(t)
    /\ \A h \in 0 .. (RB_N - 1) : ConsumerProgress(h)

\* C39, amended: the same for a queue of capacity >= 1 (an array of N >= 2
\* slots); over an array of one slot the queue is empty and full for ever,
\* every call returns, every enqueue fails and every dequeue returns None.
C39_Progress ==
    /\ CallsReturn
    /\ \A t \in 0 .. (RB_N - 1) :
           (RBFull /\ tail = t /\ RBSlots >= 2) ~> (tail # t)
    /\ \A h \in 0 .. (RB_N - 1) :
           (RBEmpty /\ head = h /\ RBSlots >= 2) ~> (head # h)
    /\ [](RBSlots = 1 => (head = 0 /\ tail = 0))

\* on a full queue over RB_N slots, its tail wrapped below head, an enqueue
\* has failed and the producer is retrying while the consumer is about to
\* publish the slot it has read
C39_Witness ==
    /\ ~rb_hist
    /\ RBSlots = RB_N
    /\ RBFull
    /\ tail < head
    /\ rb_last.op = "enqueue"
    /\ ~rb_last.ok
    /\ prod.pc = "e_check"
    /\ cons.pc = "d_publish"

====
